---- MODULE Spec2Model ----
(***************************************************************************)
(* morethanamsterdam-web: the get_trips table macro (create_macro.sql),    *)
(* the ETL that writes the per-day leg partitions (etl/download_data.sql)  *)
(* and the query client (src/data.js).                                     *)
(*                                                                         *)
(* Timestamps are minutes since 00:00 of the service date of a partition.  *)
(* A table is a set of rows; rows of planning carry the service ids of the *)
(* legs joined (lineage), which keeps the duplicate rows of SQL's bags     *)
(* apart.  Where SQL leaves an order open (row_number over ties, a window  *)
(* ordered over ties, ORDER BY over ties) every order is a behaviour.      *)
(***************************************************************************)
EXTENDS Integers, Sequences, FiniteSets

\* One evaluation of get_trips by the engine
VARIABLES input, services, train_schedule, planning, working,
          distinct_paths, optimal_paths, trips, pc

\* src/data.js: the module's variables, the engine they refer to and the
\* calls of executeTripQuery in progress
VARIABLES duckdbConn, duckdbDb, duckdbReady, macroSqlCache, macroExecuted,
          servicesRegistered, dbs, conns, call, issued, started

macro == <<input, services, train_schedule, planning, working,
           distinct_paths, optimal_paths, trips, pc>>

client == <<duckdbConn, duckdbDb, duckdbReady, macroSqlCache, macroExecuted,
            servicesRegistered, dbs, conns, call, issued, started>>

vars == <<macro, client>>

(***************************************************************************)
(* Bounds                                                                  *)
(***************************************************************************)
\* most rows of exploded_raw_data one partition is built from
MaxLegs == 6

\* most calls of executeTripQuery in one behaviour
MaxCalls == 2

(***************************************************************************)
(* SQL scalar functions                                                    *)
(***************************************************************************)
\* SQL NULL, where a column of integers can hold it
NULL == -1

\* time_bucket(INTERVAL 'w minutes', t): t rounded down to the w-minute grid
time_bucket(w, t) == t - (t % w)

\* hour(t), minute(t) of a timestamp
hour(t) == (t \div 60) % 24

minute(t) == t % 60

\* date_diff('minute', a, b)
date_diff(a, b) == b - a

\* varchar order of the station codes, as list_sort compares them
StationCodes == <<"A", "B", "C", "D", "E", "F">>

Stations == {StationCodes[i] : i \in DOMAIN StationCodes}

varchar_rank(s) == CHOOSE i \in DOMAIN StationCodes : StationCodes[i] = s

RECURSIVE insert_sorted(_, _)
insert_sorted(x, l) ==
    IF l = <<>> THEN <<x>>
    ELSE IF varchar_rank(x) <= varchar_rank(Head(l)) THEN <<x>> \o l
    ELSE <<Head(l)>> \o insert_sorted(x, Tail(l))

\* list_sort(l)
RECURSIVE list_sort(_)
list_sort(l) == IF l = <<>> THEN <<>> ELSE insert_sorted(Head(l), list_sort(Tail(l)))

\* list_position(l, x) IS NULL
list_position_is_null(l, x) == \A i \in DOMAIN l : l[i] # x

\* list_distinct(l): the distinct elements of l (the engine fixes no order;
\* only len() of the result is read)
RECURSIVE list_distinct(_)
list_distinct(l) ==
    IF l = <<>> THEN <<>>
    ELSE LET front == SubSeq(l, 1, Len(l) - 1)
             last == l[Len(l)]
         IN IF list_position_is_null(front, last)
            THEN Append(list_distinct(front), last)
            ELSE list_distinct(front)

\* flatten(ll)
RECURSIVE flatten(_)
flatten(ll) == IF ll = <<>> THEN <<>> ELSE Head(ll) \o flatten(Tail(ll))

\* list_intersect(l1, l2): the distinct elements of l1 that occur in l2
list_intersect(l1, l2) ==
    SelectSeq(list_distinct(l1), LAMBDA x : ~list_position_is_null(l2, x))

(***************************************************************************)
(* data/train_stations.csv: station_code -> municipality, province and     *)
(* number of monuments.  D and F lie in one municipality.                  *)
(***************************************************************************)
train_stations ==
    [s \in Stations |->
        CASE s = "A" -> [municipality_sk |-> "M1", province_sk |-> "P1", number_of_monuments |-> 1]
          [] s = "B" -> [municipality_sk |-> "M2", province_sk |-> "P1", number_of_monuments |-> 2]
          [] s = "C" -> [municipality_sk |-> "M3", province_sk |-> "P2", number_of_monuments |-> 2]
          [] s = "D" -> [municipality_sk |-> "M4", province_sk |-> "P3", number_of_monuments |-> 1]
          [] s = "E" -> [municipality_sk |-> "M5", province_sk |-> "P2", number_of_monuments |-> 3]
          [] s = "F" -> [municipality_sk |-> "M4", province_sk |-> "P3", number_of_monuments |-> 0]]

(***************************************************************************)
(* etl/download_data.sql                                                   *)
(***************************************************************************)
\* One row of exploded_raw_data: a pair of stops of one service, the times
\* bucketed to 5 minutes, municipality and province joined from the stations.
exploded_raw_data(day, svc, from, dep, to, arr) ==
    [day_of_week          |-> day,
     service_id           |-> svc,
     departure_time_tb    |-> time_bucket(5, dep),
     from_station_code    |-> from,
     from_municipality_sk |-> train_stations[from].municipality_sk,
     from_province_sk     |-> train_stations[from].province_sk,
     to_station_code      |-> to,
     arrival_time_tb      |-> time_bucket(5, arr),
     to_municipality_sk   |-> train_stations[to].municipality_sk,
     to_province_sk       |-> train_stations[to].province_sk]

\* The final SELECT of download_data: what is written to the partition.
download_data(rows) ==
    {r \in rows : /\ r.from_municipality_sk # r.to_municipality_sk
                  /\ date_diff(r.departure_time_tb, r.arrival_time_tb) <= 60}

(***************************************************************************)
(* The services of three days of the week, as exploded_raw_data holds them *)
(* (service, from, departure, to, arrival; every service has two stops).   *)
(***************************************************************************)
Days == {1, 2, 3}

Timetable(day) ==
    CASE day = 1 ->
           {exploded_raw_data(1, "s11", "A", 480, "B", 510),
            exploded_raw_data(1, "s12", "A", 480, "C", 507),
            exploded_raw_data(1, "s13", "B", 510, "C", 540),
            exploded_raw_data(1, "s14", "C", 495, "B", 525),
            exploded_raw_data(1, "s15", "B", 525, "D", 555),
            exploded_raw_data(1, "s16", "C", 540, "D", 560),
            exploded_raw_data(1, "s17", "C", 540, "A", 570),
            exploded_raw_data(1, "s18", "B", 525, "C", 555),
            exploded_raw_data(1, "s19", "A", 480, "B", 490),
            exploded_raw_data(1, "s1a", "C", 555, "D", 585),
            exploded_raw_data(1, "s1b", "B", 525, "D", 550)}
      [] day = 2 ->
           {exploded_raw_data(2, "s21", "A", 480, "B", 510),
            exploded_raw_data(2, "s22", "A", 480, "C", 510),
            exploded_raw_data(2, "s23", "A", 480, "E", 510),
            exploded_raw_data(2, "s24", "B", 510, "D", 555),
            exploded_raw_data(2, "s25", "C", 510, "D", 550),
            exploded_raw_data(2, "s26", "E", 510, "D", 555),
            exploded_raw_data(2, "s27", "A", 480, "D", 540),
            exploded_raw_data(2, "s28", "A", 480, "F", 500),
            exploded_raw_data(2, "s29", "F", 495, "D", 520),
            exploded_raw_data(2, "s2a", "B", 510, "D", 535),
            exploded_raw_data(2, "s2b", "B", 510, "C", 540),
            exploded_raw_data(2, "s2c", "C", 540, "D", 560)}
      [] day = 3 ->
           {exploded_raw_data(3, "s31", "A", 480, "B", 510),
            exploded_raw_data(3, "s32", "B", 540, "C", 570),
            exploded_raw_data(3, "s33", "B", 510, "C", 540),
            exploded_raw_data(3, "s34", "A", 487, "B", 515),
            exploded_raw_data(3, "s35", "B", 572, "D", 600),
            exploded_raw_data(3, "s36", "A", 480, "D", 545),
            exploded_raw_data(3, "s37", "B", 570, "C", 595),
            exploded_raw_data(3, "s38", "C", 540, "B", 570)}

\* The partitions ./data/train_services.parquet/day_of_week=<day>/data_0.parquet
\* the ETL can have written from at most MaxLegs rows of that day.
Partitions(day) ==
    {download_data(rows) :
        rows \in {s \in SUBSET Timetable(day) : Cardinality(s) <= MaxLegs}}

(***************************************************************************)
(* The arguments of one call of get_trips                                  *)
(***************************************************************************)
Queries ==
    {[input_day_of_week       |-> d,
      input_station_code      |-> "A",
      input_hour_departure    |-> 8,
      input_minute_departure  |-> 0,
      input_to_station_code   |-> to,
      input_hour_arrival      |-> 9,
      input_layover_time      |-> l,
      input_to_municipality_sk |-> train_stations[to].municipality_sk] :
        d \in Days, to \in {"A", "C", "D"}, l \in {0, 1}}

(***************************************************************************)
(* create_macro.sql: get_trips                                             *)
(***************************************************************************)
\* LegalLeg without the rule on the destination municipality
LegalLeg_no_detour_rule(src) ==
    LET travel_time == date_diff(src.departure_time_tb, src.arrival_time_tb)
    IN travel_time >= 15 /\ travel_time <= 60

\* train_schedule: the legs of the partition that are legal for the query
LegalLeg(src) ==
    LET travel_time == date_diff(src.departure_time_tb, src.arrival_time_tb)
    IN /\ ~(/\ src.to_municipality_sk = input.input_to_municipality_sk
            /\ src.to_station_code # input.input_to_station_code)
       /\ travel_time >= 15 /\ travel_time <= 60

TrainSchedule(src_rows) ==
    {[service_id           |-> src.service_id,
      departure_time_tb    |-> src.departure_time_tb,
      from_station_code    |-> src.from_station_code,
      from_municipality_sk |-> src.from_municipality_sk,
      from_province_sk     |-> src.from_province_sk,
      to_station_code      |-> src.to_station_code,
      arrival_time_tb      |-> src.arrival_time_tb,
      to_municipality_sk   |-> src.to_municipality_sk,
      to_province_sk       |-> src.to_province_sk,
      travel_time          |-> date_diff(src.departure_time_tb, src.arrival_time_tb)] :
        src \in {r \in src_rows : LegalLeg(r)}}

\* to_station_code = input_to_station_code AND hour(arrival_time_tb) = input_hour_arrival
\* (lines 57-58, 74-75 and 90-91)
ReachesDestination(to_station_code, arrival_time_tb) ==
    /\ to_station_code = input.input_to_station_code
    /\ hour(arrival_time_tb) = input.input_hour_arrival

\* SeedFilter without the comparison of the minute
SeedFilter_any_minute(ts) ==
    /\ ts.from_station_code = input.input_station_code
    /\ hour(ts.departure_time_tb) = input.input_hour_departure
    /\ ts.to_station_code # input.input_to_station_code

\* SeedFilter without the exclusion of the destination station
SeedFilter_allows_destination(ts) ==
    /\ ts.from_station_code = input.input_station_code
    /\ hour(ts.departure_time_tb) = input.input_hour_departure
    /\ minute(ts.departure_time_tb) = input.input_minute_departure

\* The WHERE of the non-recursive term of planning
SeedFilter(ts) ==
    /\ ts.from_station_code = input.input_station_code
    /\ hour(ts.departure_time_tb) = input.input_hour_departure
    /\ minute(ts.departure_time_tb) = input.input_minute_departure
    /\ ts.to_station_code # input.input_to_station_code

\* One row of the non-recursive term of planning
SeedRow(ts) ==
    [from_station_code   |-> ts.from_station_code,
     to_station_code     |-> ts.to_station_code,
     path                |-> <<ts.from_station_code, ts.to_station_code>>,
     time_schedule       |-> <<ts.departure_time_tb, ts.arrival_time_tb>>,
     municipalities      |-> <<ts.from_municipality_sk, ts.to_municipality_sk>>,
     provinces           |-> <<ts.from_province_sk, ts.to_province_sk>>,
     travel_time         |-> ts.travel_time,
     departure_time_tb   |-> ts.departure_time_tb,
     arrival_time_tb     |-> ts.arrival_time_tb,
     end_reached         |-> 0,
     to_municipality_sk  |-> ts.to_municipality_sk,
     number_of_monuments |-> train_stations[ts.to_station_code].number_of_monuments,
     lineage             |-> <<ts.service_id>>]

\* LayoverJoin that leaves the layover out of the bucket
LayoverJoin_ignores_layover(p, ts) ==
    /\ p.to_station_code = ts.from_station_code
    /\ time_bucket(15, p.arrival_time_tb) = time_bucket(15, ts.departure_time_tb)

\* LayoverJoin that takes the layover as a minimum instead of a bucket
LayoverJoin_at_least(p, ts) ==
    /\ p.to_station_code = ts.from_station_code
    /\ p.arrival_time_tb + 60 * input.input_layover_time <= ts.departure_time_tb

\* The ON condition of planning JOIN train_schedule ts
LayoverJoin(p, ts) ==
    /\ p.to_station_code = ts.from_station_code
    /\ time_bucket(15, p.arrival_time_tb + 60 * input.input_layover_time)
         = time_bucket(15, ts.departure_time_tb)

\* ExtensionFilter without the test that the municipality is new to the path
ExtensionFilter_no_municipality_check(p, ts) ==
    /\ \/ ts.to_municipality_sk # input.input_to_municipality_sk
       \/ ReachesDestination(ts.to_station_code, ts.arrival_time_tb)
    /\ p.end_reached = 0

\* ExtensionFilter without the exception for the leg that reaches the destination
ExtensionFilter_no_terminal_exception(p, ts) ==
    /\ list_position_is_null(p.municipalities, ts.to_municipality_sk)
    /\ ts.to_municipality_sk # input.input_to_municipality_sk
    /\ p.end_reached = 0

\* ExtensionFilter without the test of planning.end_reached
ExtensionFilter_ignores_end_reached(p, ts) ==
    \/ /\ list_position_is_null(p.municipalities, ts.to_municipality_sk)
       /\ ts.to_municipality_sk # input.input_to_municipality_sk
    \/ ReachesDestination(ts.to_station_code, ts.arrival_time_tb)

\* The WHERE of the recursive term
ExtensionFilter(p, ts) ==
    /\ \/ /\ list_position_is_null(p.municipalities, ts.to_municipality_sk)
          /\ ts.to_municipality_sk # input.input_to_municipality_sk
       \/ ReachesDestination(ts.to_station_code, ts.arrival_time_tb)
    /\ p.end_reached = 0

\* EndReached that is never set
EndReached_never(joined) == 0

\* max((...)::int) OVER (rows between unbounded preceding and unbounded
\* following): one value for all the rows the recursive term returns
EndReached(joined) ==
    IF \E c \in joined : ReachesDestination(c[2].to_station_code, c[2].arrival_time_tb)
    THEN 1 ELSE 0

\* ExtendRow that takes the travel_time of the last leg alone
ExtendRow_last_leg_time(p, ts, end_reached) ==
    [from_station_code   |-> ts.from_station_code,
     to_station_code     |-> ts.to_station_code,
     path                |-> Append(p.path, ts.to_station_code),
     time_schedule       |-> Append(Append(p.time_schedule, ts.departure_time_tb),
                                    ts.arrival_time_tb),
     municipalities      |-> Append(p.municipalities, ts.to_municipality_sk),
     provinces           |-> Append(p.provinces, ts.to_province_sk),
     travel_time         |-> ts.travel_time,
     departure_time_tb   |-> ts.departure_time_tb,
     arrival_time_tb     |-> ts.arrival_time_tb,
     end_reached         |-> end_reached,
     to_municipality_sk  |-> p.to_municipality_sk,
     number_of_monuments |-> p.number_of_monuments
                             + train_stations[ts.to_station_code].number_of_monuments,
     lineage             |-> Append(p.lineage, ts.service_id)]

\* ExtendRow that sets end_reached from the row's own leg
ExtendRow_own_end_reached(p, ts, end_reached) ==
    [from_station_code   |-> ts.from_station_code,
     to_station_code     |-> ts.to_station_code,
     path                |-> Append(p.path, ts.to_station_code),
     time_schedule       |-> Append(Append(p.time_schedule, ts.departure_time_tb),
                                    ts.arrival_time_tb),
     municipalities      |-> Append(p.municipalities, ts.to_municipality_sk),
     provinces           |-> Append(p.provinces, ts.to_province_sk),
     travel_time         |-> p.travel_time + ts.travel_time,
     departure_time_tb   |-> ts.departure_time_tb,
     arrival_time_tb     |-> ts.arrival_time_tb,
     end_reached         |-> IF ReachesDestination(ts.to_station_code, ts.arrival_time_tb)
                             THEN 1 ELSE 0,
     to_municipality_sk  |-> p.to_municipality_sk,
     number_of_monuments |-> p.number_of_monuments
                             + train_stations[ts.to_station_code].number_of_monuments,
     lineage             |-> Append(p.lineage, ts.service_id)]

\* One row of the recursive term
ExtendRow(p, ts, end_reached) ==
    [from_station_code   |-> ts.from_station_code,
     to_station_code     |-> ts.to_station_code,
     path                |-> Append(p.path, ts.to_station_code),
     time_schedule       |-> Append(Append(p.time_schedule, ts.departure_time_tb),
                                    ts.arrival_time_tb),
     municipalities      |-> Append(p.municipalities, ts.to_municipality_sk),
     provinces           |-> Append(p.provinces, ts.to_province_sk),
     travel_time         |-> p.travel_time + ts.travel_time,
     departure_time_tb   |-> ts.departure_time_tb,
     arrival_time_tb     |-> ts.arrival_time_tb,
     end_reached         |-> end_reached,
     to_municipality_sk  |-> p.to_municipality_sk,
     number_of_monuments |-> p.number_of_monuments
                             + train_stations[ts.to_station_code].number_of_monuments,
     lineage             |-> Append(p.lineage, ts.service_id)]

\* The rows one iteration of the recursive term returns from the rows of the
\* iteration before
RecursiveTerm(prev) ==
    LET joined == {c \in prev \X train_schedule :
                      LayoverJoin(c[1], c[2]) /\ ExtensionFilter(c[1], c[2])}
    IN {ExtendRow(c[1], c[2], EndReached(joined)) : c \in joined}

\* The sequences that hold every row of a table once, in an order LE allows:
\* what ORDER BY (of a query or of a window) can return
Orderings(rows, LE(_, _)) ==
    LET n == Cardinality(rows)
    IN {s \in [1..n -> rows] :
           /\ \A i, j \in 1..n : i # j => s[i] # s[j]
           /\ \A i \in 1..(n - 1) : LE(s[i], s[i + 1])}

\* distinct_paths before QUALIFY: the rows of planning that reach the destination
ReachingRows(rows) ==
    {r \in rows : ReachesDestination(r.to_station_code, r.arrival_time_tb)}

\* CanBeFirst for ORDER BY travel_time DESC
CanBeFirst_slowest(rows, r) ==
    \A o \in rows : list_sort(o.path) = list_sort(r.path) => r.travel_time >= o.travel_time

\* row_number() OVER (PARTITION BY list_sort(path) ORDER BY travel_time) = 1
\* can hold of r: no row of r's partition has a smaller travel_time
CanBeFirst(rows, r) ==
    \A o \in rows : list_sort(o.path) = list_sort(r.path) => r.travel_time <= o.travel_time

DistinctRow(r) ==
    [path                |-> r.path,
     travel_time         |-> r.travel_time,
     time_schedule       |-> r.time_schedule,
     municipalities      |-> r.municipalities,
     provinces           |-> list_distinct(r.provinces),
     number_of_monuments |-> r.number_of_monuments]

\* The tables distinct_paths can be: of every partition, one row that can be first
DistinctPaths(rows) ==
    {{DistinctRow(r) : r \in kept} :
        kept \in {k \in SUBSET ReachingRows(rows) :
                    /\ \A r \in k : CanBeFirst(ReachingRows(rows), r)
                    /\ \A r \in ReachingRows(rows) :
                          Cardinality({o \in k : list_sort(o.path) = list_sort(r.path)}) = 1}}

\* ORDER BY m_p desc of the window of optimal_paths
ProvinceCountDesc(a, b) == Len(a.provinces) >= Len(b.provinces)

\* optimal_paths for one order of the window: m_m is array_agg(municipalities)
\* over the rows before the current one; over no rows it is NULL, written <<>>
\* here (array_agg returns no empty list)
OptimalPaths(ord) ==
    [i \in DOMAIN ord |->
        [path                |-> ord[i].path,
         municipalities      |-> ord[i].municipalities,
         time_schedule       |-> ord[i].time_schedule,
         travel_time         |-> ord[i].travel_time,
         m_p                 |-> Len(ord[i].provinces),
         m_m                 |-> [j \in 1..(i - 1) |-> ord[j].municipalities],
         number_of_monuments |-> ord[i].number_of_monuments]]

\* len(list_intersect(municipalities, flatten(NULL))): 0 where list_intersect
\* is the engine's macro over list_filter, NULL where it is a function that
\* returns NULL on a NULL argument
EmptyFrameOverlap == {0, NULL}

\* len(list_intersect(municipalities, flatten(m_m))) as no_overlaps
NoOverlaps(o, on_null) ==
    IF o.m_m = <<>> THEN on_null
    ELSE Len(list_intersect(o.municipalities, flatten(o.m_m)))

\* One row of the final SELECT; number_of_monuments and travel_time are the
\* ORDER BY columns that are not returned
TripRow(o, on_null) ==
    [path                |-> o.path,
     time_schedule       |-> o.time_schedule,
     no_overlaps         |-> NoOverlaps(o, on_null),
     number_of_monuments |-> o.number_of_monuments,
     travel_time         |-> o.travel_time]

\* FinalOrder with number_of_monuments ascending
FinalOrder_monuments_asc(a, b) ==
    \/ a.no_overlaps # b.no_overlaps
       /\ \/ b.no_overlaps = NULL
          \/ a.no_overlaps # NULL /\ a.no_overlaps < b.no_overlaps
    \/ a.no_overlaps = b.no_overlaps
       /\ \/ a.number_of_monuments < b.number_of_monuments
          \/ /\ a.number_of_monuments = b.number_of_monuments
             /\ a.travel_time <= b.travel_time

\* ORDER BY no_overlaps ASC, number_of_monuments DESC, travel_time
\* (the engine's default puts NULL last)
FinalOrder(a, b) ==
    \/ a.no_overlaps # b.no_overlaps
       /\ \/ b.no_overlaps = NULL
          \/ a.no_overlaps # NULL /\ a.no_overlaps < b.no_overlaps
    \/ a.no_overlaps = b.no_overlaps
       /\ \/ a.number_of_monuments > b.number_of_monuments
          \/ /\ a.number_of_monuments = b.number_of_monuments
             /\ a.travel_time <= b.travel_time

\* What the caller receives: path, time_schedule, no_overlaps
Output == [i \in DOMAIN trips |->
              [path          |-> trips[i].path,
               time_schedule |-> trips[i].time_schedule,
               no_overlaps   |-> trips[i].no_overlaps]]

(***************************************************************************)
(* The evaluation of one call of get_trips, one step per CTE and one per   *)
(* iteration of the recursive term                                         *)
(***************************************************************************)
(***************************************************************************)
(* src/data.js: executeTripQuery and what it awaits.  A step runs from one *)
(* await to the next; duckdb-wasm, fetch and the timer are the environment.*)
(***************************************************************************)
\* The calls of executeTripQuery that can be in progress at once
Calls == {"c1", "c2"}

\* timeoutMs of executeQueryWithTimeout, and the step of the clock
timeoutMs == 15000

TickMs == timeoutMs

\* The message the timer rejects with, and the message the catch compares with
TimeoutMessage == "unable to plan trip, increase the layover time"

RethrowMessage == "Unable to plan trip, increase the layover time"

\* params of executeTripQuery: the day of the week and the departure hour
\* (the other parameters are passed on as they are)
Params ==
    {[dayOfWeek |-> 0, hourDeparture |-> 8], [dayOfWeek |-> 1, hourDeparture |-> 8],
     [dayOfWeek |-> 2, hourDeparture |-> 8], [dayOfWeek |-> 1, hourDeparture |-> 24]}

\* Number.isInteger(dayOfWeek) && 1 <= dayOfWeek <= 7
ValidDayOfWeek(dayOfWeek) == dayOfWeek \in Int /\ dayOfWeek >= 1 /\ dayOfWeek <= 7

\* `services_dow_${dayOfWeek}`
RegistrationKey(dayOfWeek) == <<"services_dow", dayOfWeek>>

\* `./data/train_services.parquet/day_of_week=${dayOfWeek}/data_0.parquet`
ServicesFilePath(dayOfWeek) == <<"train_services.parquet", dayOfWeek>>

StationsFilePath == <<"train_stations.csv">>

\* new duckdb.AsyncDuckDB(logger, worker)
NewDb == [instantiated |-> FALSE, files |-> {}, macro |-> FALSE]

\* registerFileBuffer(path, buffer): the buffer replaces what path held
RegisterFileBuffer(files, path, ok) ==
    {f \in files : f.path # path} \cup {[path |-> path, ok |-> ok]}

NoOutcome == [kind |-> "none", value |-> ""]

IdleCall ==
    [pc |-> "idle", id |-> 0, params |-> [dayOfWeek |-> 0, hourDeparture |-> 0],
     target |-> 0, resp_ok |-> FALSE, elapsed |-> 0, timeouts |-> 0,
     outcome |-> NoOutcome]

ClientInit ==
    /\ duckdbConn = 0
    /\ duckdbDb = 0
    /\ duckdbReady = FALSE
    /\ macroSqlCache = ""
    /\ macroExecuted = FALSE
    /\ servicesRegistered = <<>>
    /\ dbs = <<>>
    /\ conns = <<>>
    /\ call = [c \in Calls |-> IdleCall]
    /\ issued = {}
    /\ started = 0

Init ==
    /\ ClientInit
    /\ input \in Queries
    /\ services \in Partitions(input.input_day_of_week)
    /\ train_schedule = {}
    /\ planning = {}
    /\ working = {}
    /\ distinct_paths = {}
    /\ optimal_paths = <<>>
    /\ trips = <<>>
    /\ pc = "train_schedule"

Materialize ==
    /\ pc = "train_schedule"
    /\ train_schedule' = TrainSchedule(services)
    /\ pc' = "seed"
    /\ UNCHANGED <<input, services, planning, working, distinct_paths, optimal_paths, trips, client>>

Seed ==
    /\ pc = "seed"
    /\ working' = {SeedRow(ts) : ts \in {t \in train_schedule : SeedFilter(t)}}
    /\ planning' = working'
    /\ pc' = "recurse"
    /\ UNCHANGED <<input, services, train_schedule, distinct_paths, optimal_paths, trips, client>>

\* One iteration; the recursion ends with the iteration that returns no row
Recurse ==
    /\ pc = "recurse"
    /\ working' = RecursiveTerm(working)
    /\ planning' = planning \cup working'
    /\ pc' = IF working' = {} THEN "distinct_paths" ELSE "recurse"
    /\ UNCHANGED <<input, services, train_schedule, distinct_paths, optimal_paths, trips, client>>

Deduplicate ==
    /\ pc = "distinct_paths"
    /\ distinct_paths' \in DistinctPaths(planning)
    /\ pc' = "optimal_paths"
    /\ UNCHANGED <<input, services, train_schedule, planning, working, optimal_paths, trips, client>>

Rank ==
    /\ pc = "optimal_paths"
    /\ \E ord \in Orderings(distinct_paths, ProvinceCountDesc) :
          optimal_paths' = OptimalPaths(ord)
    /\ pc' = "select"
    /\ UNCHANGED <<input, services, train_schedule, planning, working, distinct_paths, trips, client>>

Select ==
    /\ pc = "select"
    /\ \E on_null \in EmptyFrameOverlap :
          trips' \in Orderings({TripRow(optimal_paths[i], on_null) : i \in DOMAIN optimal_paths},
                               FinalOrder)
    /\ pc' = "done"
    /\ UNCHANGED <<input, services, train_schedule, planning, working, distinct_paths, optimal_paths, client>>

Next == Materialize \/ Seed \/ Recurse \/ Deduplicate \/ Rank \/ Select

Spec == Init /\ [][Next]_vars

\* The engine goes on evaluating the query as long as a step is left
SpecFair == Spec /\ WF_vars(Next)

(***************************************************************************)
(* src/data.js: the steps of executeTripQuery                              *)
(***************************************************************************)
\* The call ends with an exception
Throws(c, message) ==
    call' = [call EXCEPT ![c] = [@ EXCEPT !.pc = "idle", !.target = 0, !.elapsed = 0,
                                          !.outcome = [kind |-> "threw", value |-> message]]]

\* The call goes on at pc
GoesOn(c, to, target) ==
    call' = [call EXCEPT ![c] = [@ EXCEPT !.pc = to, !.target = target]]

\* A get_trips query handed to the engine
IssuedQuery(cur, how) ==
    [id |-> cur.id, how |-> how, params |-> cur.params, conn |-> duckdbConn,
     timeouts |-> cur.timeouts]

\* executeTripQuery(params) up to the first await of ensureDuckDB
CallExecuteTripQuery(c) ==
    /\ call[c].pc = "idle"
    /\ started < MaxCalls
    /\ \E p \in Params :
          call' = [call EXCEPT ![c] =
                      [IdleCall EXCEPT !.id = started + 1, !.params = p,
                                       !.pc = IF duckdbReady THEN "ensureMacroExecuted"
                                              ELSE "import"]]
    /\ started' = started + 1
    /\ UNCHANGED <<duckdbConn, duckdbDb, duckdbReady, macroSqlCache, macroExecuted,
                   servicesRegistered, dbs, conns, issued, macro>>

\* ensureDuckDB: the import, the bundle and the worker are there (or not);
\* duckdbDb = new AsyncDuckDB; instantiate is called unless the pthread
\* worker is fetched first
LoadEngine(c) ==
    /\ call[c].pc = "import"
    /\ \E ok \in BOOLEAN, pthreadWorker \in BOOLEAN :
          IF ok
          THEN /\ dbs' = Append(dbs, NewDb)
               /\ duckdbDb' = Len(dbs) + 1
               /\ IF pthreadWorker THEN GoesOn(c, "pthread", 0)
                  ELSE GoesOn(c, "instantiate", Len(dbs) + 1)
          ELSE /\ Throws(c, "Failed to fetch worker")
               /\ UNCHANGED <<dbs, duckdbDb>>
    /\ UNCHANGED <<duckdbConn, duckdbReady, macroSqlCache, macroExecuted,
                   servicesRegistered, conns, issued, started, macro>>

\* ensureDuckDB: the pthread worker is fetched; duckdbDb.instantiate is called
PthreadFetched(c) ==
    /\ call[c].pc = "pthread"
    /\ \E ok \in BOOLEAN :
          IF ok THEN GoesOn(c, "instantiate", duckdbDb)
          ELSE Throws(c, "Failed to fetch pthread worker")
    /\ UNCHANGED <<duckdbConn, duckdbDb, duckdbReady, macroSqlCache, macroExecuted,
                   servicesRegistered, dbs, conns, issued, started, macro>>

\* ensureDuckDB: instantiate has resolved; duckdbDb.connect() is called
Instantiated(c) ==
    /\ call[c].pc = "instantiate"
    /\ dbs' = [dbs EXCEPT ![call[c].target].instantiated = TRUE]
    /\ GoesOn(c, "connect", duckdbDb)
    /\ UNCHANGED <<duckdbConn, duckdbDb, duckdbReady, macroSqlCache, macroExecuted,
                   servicesRegistered, conns, issued, started, macro>>

\* ensureDuckDB: duckdbConn = the connection; duckdbReady = true
Connected(c) ==
    /\ call[c].pc = "connect"
    /\ dbs[call[c].target].instantiated
    /\ conns' = Append(conns, [db |-> call[c].target])
    /\ duckdbConn' = Len(conns) + 1
    /\ duckdbReady' = TRUE
    /\ GoesOn(c, "ensureMacroExecuted", 0)
    /\ UNCHANGED <<duckdbDb, macroSqlCache, macroExecuted, servicesRegistered, dbs,
                   issued, started, macro>>

\* ensureDuckDB: connect() rejects, the database it was called on not being
\* instantiated
ConnectFailed(c) ==
    /\ call[c].pc = "connect"
    /\ ~dbs[call[c].target].instantiated
    /\ Throws(c, "duckdb is not initialized")
    /\ UNCHANGED <<duckdbConn, duckdbDb, duckdbReady, macroSqlCache, macroExecuted,
                   servicesRegistered, dbs, conns, issued, started, macro>>

\* ensureMacroExecuted up to its first await
MacroEnter(c) ==
    /\ call[c].pc = "ensureMacroExecuted"
    /\ IF macroExecuted THEN GoesOn(c, "ensureServicesFileRegistered", 0)
       ELSE IF macroSqlCache = "" THEN GoesOn(c, "macro_fetch", 0)
       ELSE GoesOn(c, "macro_query", duckdbConn)
    /\ UNCHANGED <<duckdbConn, duckdbDb, duckdbReady, macroSqlCache, macroExecuted,
                   servicesRegistered, dbs, conns, issued, started, macro>>

\* ensureMacroExecuted: src/create_macro.sql is fetched; the query that
\* creates the macro is sent
MacroFetched(c) ==
    /\ call[c].pc = "macro_fetch"
    /\ \E ok \in BOOLEAN :
          IF ok THEN /\ macroSqlCache' = "CREATE OR REPLACE MACRO get_trips"
                     /\ GoesOn(c, "macro_query", duckdbConn)
          ELSE /\ Throws(c, "Failed to load create_macro.sql")
               /\ UNCHANGED macroSqlCache
    /\ UNCHANGED <<duckdbConn, duckdbDb, duckdbReady, macroExecuted,
                   servicesRegistered, dbs, conns, issued, started, macro>>

\* ensureMacroExecuted: the macro is created; macroExecuted = true
MacroQueried(c) ==
    /\ call[c].pc = "macro_query"
    /\ dbs' = [dbs EXCEPT ![conns[call[c].target].db].macro = TRUE]
    /\ macroExecuted' = TRUE
    /\ GoesOn(c, "ensureServicesFileRegistered", 0)
    /\ UNCHANGED <<duckdbConn, duckdbDb, duckdbReady, macroSqlCache,
                   servicesRegistered, conns, issued, started, macro>>

\* ensureServicesFileRegistered(dayOfWeek) up to its first await
ServicesEnter(c) ==
    /\ call[c].pc = "ensureServicesFileRegistered"
    /\ IF ~ValidDayOfWeek(call[c].params.dayOfWeek)
       THEN Throws(c, "Invalid day of week parameter")
       ELSE IF servicesRegistered = RegistrationKey(call[c].params.dayOfWeek)
       THEN GoesOn(c, "prepare", 0)
       ELSE GoesOn(c, "services_fetch", 0)
    /\ UNCHANGED <<duckdbConn, duckdbDb, duckdbReady, macroSqlCache, macroExecuted,
                   servicesRegistered, dbs, conns, issued, started, macro>>

\* ServicesFetched that goes on to register whatever the response is
ServicesFetched_ignores_status(c) ==
    /\ call[c].pc = "services_fetch"
    /\ \E ok \in BOOLEAN :
          call' = [call EXCEPT ![c] = [@ EXCEPT !.pc = "register_services",
                                                  !.target = duckdbDb,
                                                  !.resp_ok = ok]]
    /\ UNCHANGED <<duckdbConn, duckdbDb, duckdbReady, macroSqlCache, macroExecuted,
                   servicesRegistered, dbs, conns, issued, started, macro>>

\* ensureServicesFileRegistered: resp = the partition's response; if ok its
\* buffer is handed to duckdbDb.registerFileBuffer
ServicesFetched(c) ==
    /\ call[c].pc = "services_fetch"
    /\ \E ok \in BOOLEAN :
          IF ok
          THEN call' = [call EXCEPT ![c] = [@ EXCEPT !.pc = "register_services",
                                                       !.target = duckdbDb,
                                                       !.resp_ok = TRUE]]
          ELSE Throws(c, "Failed to fetch ./data/train_services.parquet")
    /\ UNCHANGED <<duckdbConn, duckdbDb, duckdbReady, macroSqlCache, macroExecuted,
                   servicesRegistered, dbs, conns, issued, started, macro>>

\* ensureServicesFileRegistered: the partition is registered; the stations
\* are fetched
ServicesFileRegistered(c) ==
    /\ call[c].pc = "register_services"
    /\ dbs' = [dbs EXCEPT ![call[c].target].files =
                  RegisterFileBuffer(@, ServicesFilePath(call[c].params.dayOfWeek), TRUE)]
    /\ GoesOn(c, "stations_fetch", 0)
    /\ UNCHANGED <<duckdbConn, duckdbDb, duckdbReady, macroSqlCache, macroExecuted,
                   servicesRegistered, conns, issued, started, macro>>

\* ensureServicesFileRegistered: res = the stations' response; the test is
\* on resp, the partition's response; the body of res is registered
StationsFetched(c) ==
    /\ call[c].pc = "stations_fetch"
    /\ \E ok \in BOOLEAN :
          IF ~call[c].resp_ok THEN Throws(c, "Failed to fetch stations data")
          ELSE call' = [call EXCEPT ![c] = [@ EXCEPT !.pc = "register_stations",
                                                       !.target = duckdbDb,
                                                       !.resp_ok = ok]]
    /\ UNCHANGED <<duckdbConn, duckdbDb, duckdbReady, macroSqlCache, macroExecuted,
                   servicesRegistered, dbs, conns, issued, started, macro>>

\* ensureServicesFileRegistered: the stations are registered;
\* servicesRegistered = registrationKey
StationsFileRegistered(c) ==
    /\ call[c].pc = "register_stations"
    /\ dbs' = [dbs EXCEPT ![call[c].target].files =
                  RegisterFileBuffer(@, StationsFilePath, call[c].resp_ok)]
    /\ servicesRegistered' = RegistrationKey(call[c].params.dayOfWeek)
    /\ GoesOn(c, "prepare", 0)
    /\ UNCHANGED <<duckdbConn, duckdbDb, duckdbReady, macroSqlCache, macroExecuted,
                   conns, issued, started, macro>>

\* The catch block: a timeout is to be thrown again, anything else falls back
\* to the query with the parameters written into the SQL, under a new timer
Catch(c, cur, message) ==
    IF message = RethrowMessage
    THEN /\ call' = [call EXCEPT ![c] = [cur EXCEPT !.pc = "idle", !.target = 0, !.elapsed = 0,
                                                     !.outcome = [kind |-> "threw", value |-> message]]]
         /\ UNCHANGED issued
    ELSE IF ~ValidDayOfWeek(cur.params.dayOfWeek)
    THEN /\ call' = [call EXCEPT ![c] = [cur EXCEPT !.pc = "idle", !.target = 0, !.elapsed = 0,
                                                     !.outcome = [kind |-> "threw",
                                                                  value |-> "Invalid day of week parameter"]]]
         /\ UNCHANGED issued
    ELSE /\ issued' = issued \cup {IssuedQuery(cur, "inline")}
         /\ call' = [call EXCEPT ![c] = [cur EXCEPT !.pc = "fallback", !.target = duckdbConn,
                                                     !.elapsed = 0]]

\* executeTripQuery: duckdbConn.prepare(sqlQuery) is called
Prepare(c) ==
    /\ call[c].pc = "prepare"
    /\ GoesOn(c, "preparing", duckdbConn)
    /\ UNCHANGED <<duckdbConn, duckdbDb, duckdbReady, macroSqlCache, macroExecuted,
                   servicesRegistered, dbs, conns, issued, started, macro>>

\* executeTripQuery: the statement is prepared and stmt.query is sent under
\* the timer, or prepare throws
Prepared(c) ==
    /\ call[c].pc = "preparing"
    /\ \E ok \in BOOLEAN :
          IF ok
          THEN /\ issued' = issued \cup {IssuedQuery(call[c], "prepared")}
               /\ call' = [call EXCEPT ![c] = [@ EXCEPT !.pc = "query", !.elapsed = 0]]
          ELSE Catch(c, call[c], "Binder Error")
    /\ UNCHANGED <<duckdbConn, duckdbDb, duckdbReady, macroSqlCache, macroExecuted,
                   servicesRegistered, dbs, conns, started, macro>>

\* Time passes while a query runs under the timer
Tick(c) ==
    /\ call[c].pc \in {"query", "fallback"}
    /\ call[c].elapsed < timeoutMs
    /\ call' = [call EXCEPT ![c].elapsed = @ + TickMs]
    /\ UNCHANGED <<duckdbConn, duckdbDb, duckdbReady, macroSqlCache, macroExecuted,
                   servicesRegistered, dbs, conns, issued, started, macro>>

\* The call returns the result of a query
Returns(c) ==
    call' = [call EXCEPT ![c] = [@ EXCEPT !.pc = "idle", !.target = 0, !.elapsed = 0,
                                          !.outcome = [kind |-> "returned", value |-> "trips"]]]

\* executeTripQuery: the prepared query resolves before the timer fires and
\* stmt.close() resolves, or close() rejects
QueryResolved(c) ==
    /\ call[c].pc = "query"
    /\ call[c].elapsed < timeoutMs
    /\ \E closed \in BOOLEAN :
          IF closed THEN Returns(c) /\ UNCHANGED issued
          ELSE Catch(c, call[c], "Invalid Error")
    /\ UNCHANGED <<duckdbConn, duckdbDb, duckdbReady, macroSqlCache, macroExecuted,
                   servicesRegistered, dbs, conns, started, macro>>

\* executeTripQuery: the prepared query rejects before the timer fires
QueryRejected(c) ==
    /\ call[c].pc = "query"
    /\ call[c].elapsed < timeoutMs
    /\ Catch(c, call[c], "Invalid Input Error")
    /\ UNCHANGED <<duckdbConn, duckdbDb, duckdbReady, macroSqlCache, macroExecuted,
                   servicesRegistered, dbs, conns, started, macro>>

\* executeQueryWithTimeout: the timer of the prepared query fires
QueryTimedOut(c) ==
    /\ call[c].pc = "query"
    /\ call[c].elapsed >= timeoutMs
    /\ Catch(c, [call[c] EXCEPT !.timeouts = @ + 1], TimeoutMessage)
    /\ UNCHANGED <<duckdbConn, duckdbDb, duckdbReady, macroSqlCache, macroExecuted,
                   servicesRegistered, dbs, conns, started, macro>>

\* executeTripQuery: the fallback query resolves before its timer fires
FallbackResolved(c) ==
    /\ call[c].pc = "fallback"
    /\ call[c].elapsed < timeoutMs
    /\ Returns(c)
    /\ UNCHANGED <<duckdbConn, duckdbDb, duckdbReady, macroSqlCache, macroExecuted,
                   servicesRegistered, dbs, conns, issued, started, macro>>

\* executeTripQuery: the fallback query rejects before its timer fires
FallbackRejected(c) ==
    /\ call[c].pc = "fallback"
    /\ call[c].elapsed < timeoutMs
    /\ Throws(c, "Invalid Input Error")
    /\ UNCHANGED <<duckdbConn, duckdbDb, duckdbReady, macroSqlCache, macroExecuted,
                   servicesRegistered, dbs, conns, issued, started, macro>>

\* executeQueryWithTimeout: the timer of the fallback query fires
FallbackTimedOut(c) ==
    /\ call[c].pc = "fallback"
    /\ call[c].elapsed >= timeoutMs
    /\ call' = [call EXCEPT ![c] = [@ EXCEPT !.pc = "idle", !.target = 0, !.elapsed = 0,
                                          !.timeouts = @ + 1,
                                          !.outcome = [kind |-> "threw", value |-> TimeoutMessage]]]
    /\ UNCHANGED <<duckdbConn, duckdbDb, duckdbReady, macroSqlCache, macroExecuted,
                   servicesRegistered, dbs, conns, issued, started, macro>>

\* No evaluation of get_trips is followed in the behaviours of the client
ClientOnlyInit ==
    /\ ClientInit
    /\ input = [input_day_of_week |-> 1, input_station_code |-> "A",
                input_hour_departure |-> 8, input_minute_departure |-> 0,
                input_to_station_code |-> "D", input_hour_arrival |-> 9,
                input_layover_time |-> 0, input_to_municipality_sk |-> "M4"]
    /\ services = {}
    /\ train_schedule = {}
    /\ planning = {}
    /\ working = {}
    /\ distinct_paths = {}
    /\ optimal_paths = <<>>
    /\ trips = <<>>
    /\ pc = "idle"

ClientNext ==
    \E c \in Calls :
       \/ CallExecuteTripQuery(c)
       \/ LoadEngine(c)
       \/ PthreadFetched(c)
       \/ Instantiated(c)
       \/ Connected(c)
       \/ ConnectFailed(c)
       \/ MacroEnter(c)
       \/ MacroFetched(c)
       \/ MacroQueried(c)
       \/ ServicesEnter(c)
       \/ ServicesFetched(c)
       \/ ServicesFileRegistered(c)
       \/ StationsFetched(c)
       \/ StationsFileRegistered(c)
       \/ Prepare(c)
       \/ Prepared(c)
       \/ Tick(c)
       \/ QueryResolved(c)
       \/ QueryRejected(c)
       \/ QueryTimedOut(c)
       \/ FallbackResolved(c)
       \/ FallbackRejected(c)
       \/ FallbackTimedOut(c)

SpecClient == ClientOnlyInit /\ [][ClientNext]_vars

(***************************************************************************)
(* Properties of get_trips                                                 *)
(***************************************************************************)
\* The legs of a path, read off its path and time_schedule
LegsOf(path, time_schedule) ==
    [i \in 1..(Len(path) - 1) |->
        [from_station_code |-> path[i],
         to_station_code   |-> path[i + 1],
         departure_time_tb |-> time_schedule[2 * i - 1],
         arrival_time_tb   |-> time_schedule[2 * i]]]

\* C1: in every returned trip each adjacent station pair is a leg of the
\* train_schedule of the queried day with the departure and arrival the
\* time_schedule gives, and for consecutive legs the 15-minute bucket of the
\* previous arrival plus the layover hours is the 15-minute bucket of the
\* next departure.
C1_TripsFollowSchedule ==
    \A k \in DOMAIN trips :
        LET legs == LegsOf(trips[k].path, trips[k].time_schedule)
        IN /\ Len(trips[k].time_schedule) = 2 * (Len(trips[k].path) - 1)
           /\ \A i \in DOMAIN legs :
                 /\ \E ts \in train_schedule :
                       /\ ts.from_station_code = legs[i].from_station_code
                       /\ ts.to_station_code = legs[i].to_station_code
                       /\ ts.departure_time_tb = legs[i].departure_time_tb
                       /\ ts.arrival_time_tb = legs[i].arrival_time_tb
                 /\ \E src \in services :
                       /\ src.day_of_week = input.input_day_of_week
                       /\ src.from_station_code = legs[i].from_station_code
                       /\ src.to_station_code = legs[i].to_station_code
                       /\ src.departure_time_tb = legs[i].departure_time_tb
                       /\ src.arrival_time_tb = legs[i].arrival_time_tb
           /\ \A i \in 1..(Len(legs) - 1) :
                 (legs[i].arrival_time_tb + 60 * input.input_layover_time)
                    \div 15 = legs[i + 1].departure_time_tb \div 15

\* a trip is returned for a query with a layover of one hour
C1_Witness ==
    /\ pc = "done"
    /\ input.input_layover_time = 1
    /\ trips # <<>>

\* C2: in every returned trip each leg after the first departs no earlier
\* than the previous leg's arrival plus the layover hours.
C2_LayoverIsMinimum ==
    \A k \in DOMAIN trips :
        LET legs == LegsOf(trips[k].path, trips[k].time_schedule)
        IN \A i \in 1..(Len(legs) - 1) :
              legs[i + 1].departure_time_tb
                 >= legs[i].arrival_time_tb + 60 * input.input_layover_time

\* C3: every returned trip starts at the origin with a first leg that departs
\* at the requested hour and minute, and ends at the destination station with
\* a last leg that arrives in the requested hour.
C3_TripEndpoints ==
    \A k \in DOMAIN trips :
        LET path == trips[k].path
            time_schedule == trips[k].time_schedule
        IN /\ path[1] = input.input_station_code
           /\ time_schedule[1] \div 60 = input.input_hour_departure
           /\ time_schedule[1] % 60 = input.input_minute_departure
           /\ path[Len(path)] = input.input_to_station_code
           /\ time_schedule[Len(time_schedule)] \div 60 = input.input_hour_arrival

\* a trip is returned although a legal leg leaves the origin at another minute
C3_Witness ==
    /\ pc = "done"
    /\ trips # <<>>
    /\ \E ts \in train_schedule :
          /\ ts.from_station_code = input.input_station_code
          /\ ts.departure_time_tb % 60 # input.input_minute_departure

\* Scenario A of the specification: the legs A->B 08:00-08:30 and
\* B->C 09:00-09:30, and the same with B->C 08:30-09:00
ScenarioA ==
    download_data({exploded_raw_data(3, "s31", "A", 480, "B", 510),
                   exploded_raw_data(3, "s32", "B", 540, "C", 570)})

ScenarioAEarly ==
    download_data({exploded_raw_data(3, "s31", "A", 480, "B", 510),
                   exploded_raw_data(3, "s33", "B", 510, "C", 540)})

ScenarioAQuery ==
    [input_day_of_week       |-> 3,
     input_station_code      |-> "A",
     input_hour_departure    |-> 8,
     input_minute_departure  |-> 0,
     input_to_station_code   |-> "C",
     input_hour_arrival      |-> 9,
     input_layover_time      |-> 0,
     input_to_municipality_sk |-> "M3"]

OneTripABC ==
    /\ Len(trips) = 1
    /\ trips[1].path = <<"A", "B", "C">>
    /\ trips[1].travel_time = 60

C6_NoDirectTrip ==
    \A k \in DOMAIN trips : Len(trips[k].path) >= 3

\* trips are returned while a legal leg from the origin, leaving at the
\* requested time, lands at the destination in the requested hour
C6_Witness ==
    /\ pc = "done"
    /\ trips # <<>>
    /\ \E ts \in train_schedule :
          /\ ts.from_station_code = input.input_station_code
          /\ ts.departure_time_tb = 60 * input.input_hour_departure + input.input_minute_departure
          /\ ts.to_station_code = input.input_to_station_code
          /\ ts.arrival_time_tb \div 60 = input.input_hour_arrival

\* C7: every leg of every path built takes 15 to 60 minutes and does not land
\* in the destination municipality at another station than the destination;
\* no returned trip has such a stop after its first station.
C7_OnlyLegalLegs ==
    /\ \A r \in planning :
          LET legs == LegsOf(r.path, r.time_schedule)
          IN \A i \in DOMAIN legs :
                /\ legs[i].arrival_time_tb - legs[i].departure_time_tb >= 15
                /\ legs[i].arrival_time_tb - legs[i].departure_time_tb <= 60
                /\ ~(/\ r.municipalities[i + 1] = input.input_to_municipality_sk
                     /\ r.path[i + 1] # input.input_to_station_code)
    /\ \A k \in DOMAIN trips : \A i \in 2..Len(trips[k].path) :
          ~(/\ train_stations[trips[k].path[i]].municipality_sk = input.input_to_municipality_sk
            /\ trips[k].path[i] # input.input_to_station_code)

\* trips are returned from a partition that holds a leg from the origin, at
\* the requested time, to another station of the destination municipality
C7_Witness ==
    /\ pc = "done"
    /\ trips # <<>>
    /\ \E src \in services :
          /\ src.from_station_code = input.input_station_code
          /\ src.departure_time_tb = 60 * input.input_hour_departure + input.input_minute_departure
          /\ src.to_municipality_sk = input.input_to_municipality_sk
          /\ src.to_station_code # input.input_to_station_code

\* C8: in every path of every layer the municipalities before the last entry
\* are pairwise distinct.
C8_NoRepeatedMunicipality ==
    \A r \in planning :
        \A i, j \in 1..(Len(r.municipalities) - 1) :
            i # j => r.municipalities[i] # r.municipalities[j]

\* a leg that follows on a path was refused because its municipality is on the path
C8_Witness ==
    /\ pc = "done"
    /\ \E p \in planning : \E ts \in train_schedule :
          /\ p.end_reached = 0
          /\ p.to_station_code = ts.from_station_code
          /\ (p.arrival_time_tb + 60 * input.input_layover_time) \div 15
                = ts.departure_time_tb \div 15
          /\ ts.to_municipality_sk # p.municipalities[Len(p.municipalities)]
          /\ \E i \in DOMAIN p.municipalities : p.municipalities[i] = ts.to_municipality_sk
          /\ \A r \in planning : r.path # Append(p.path, ts.to_station_code)

\* The stations of a path, as a set
StationSet(path) == {path[i] : i \in DOMAIN path}

\* The paths of planning that end at the destination in the requested hour
ArrivedPaths ==
    {r \in planning : /\ r.path[Len(r.path)] = input.input_to_station_code
                      /\ r.arrival_time_tb \div 60 = input.input_hour_arrival}

\* C9: of every station collection the arrived paths reach, exactly one trip
\* is returned, with the least travel_time of the arrived paths of that
\* collection; no two returned trips have the same station set.
C9_Deduplication ==
    pc = "done" =>
       /\ \A r \in ArrivedPaths :
             \E k \in DOMAIN trips :
                /\ StationSet(trips[k].path) = StationSet(r.path)
                /\ trips[k].travel_time <= r.travel_time
                /\ \A l \in DOMAIN trips :
                      StationSet(trips[l].path) = StationSet(r.path) => l = k
       /\ \A k \in DOMAIN trips :
             \E r \in ArrivedPaths :
                /\ r.path = trips[k].path
                /\ r.time_schedule = trips[k].time_schedule
                /\ r.travel_time = trips[k].travel_time
       /\ \A k, l \in DOMAIN trips :
             k # l => StationSet(trips[k].path) # StationSet(trips[l].path)

\* two arrived paths visit the same stations in different orders, one faster
C9_Witness ==
    /\ pc = "done"
    /\ \E r, o \in ArrivedPaths :
          /\ r.path # o.path
          /\ StationSet(r.path) = StationSet(o.path)
          /\ r.travel_time < o.travel_time

\* C10: the returned list is sorted by no_overlaps ascending (NULL, if the
\* engine returns it, last), then number_of_monuments descending, then
\* travel_time ascending.
C10_Sorted ==
    \A i \in 1..(Len(trips) - 1) :
        LET a == trips[i]
            b == trips[i + 1]
            before(x, y) == IF x = NULL THEN FALSE ELSE IF y = NULL THEN TRUE ELSE x < y
        IN ~ \/ before(b.no_overlaps, a.no_overlaps)
             \/ /\ a.no_overlaps = b.no_overlaps
                /\ a.number_of_monuments < b.number_of_monuments
             \/ /\ a.no_overlaps = b.no_overlaps
                /\ a.number_of_monuments = b.number_of_monuments
                /\ a.travel_time > b.travel_time

\* three trips are returned, two with equal no_overlaps and different monuments
C10_Witness ==
    /\ pc = "done"
    /\ Len(trips) >= 3
    /\ \E i \in 1..(Len(trips) - 1) :
          /\ trips[i].no_overlaps = trips[i + 1].no_overlaps
          /\ trips[i].number_of_monuments # trips[i + 1].number_of_monuments

\* The lists of trips get_trips can return from the rows of planning, for
\* one behaviour of the engine on the empty frame: every choice among the
\* rows that tie in row_number, in the window's order and in the final order
PossibleTrips(rows, on_null) ==
    UNION {UNION {Orderings({TripRow(OptimalPaths(ord)[i], on_null) : i \in DOMAIN ord},
                            FinalOrder) :
                     ord \in Orderings(dp, ProvinceCountDesc)} :
              dp \in DistinctPaths(rows)}

\* What the caller receives of a list of trips
OutputOf(t) ==
    [i \in DOMAIN t |-> [path          |-> t[i].path,
                         time_schedule |-> t[i].time_schedule,
                         no_overlaps   |-> t[i].no_overlaps]]

\* The value the engine gave the trip with the empty frame
OnNullOf(t) == IF \E i \in DOMAIN t : t[i].no_overlaps = NULL THEN NULL ELSE 0

\* C11: the ordered list returned (paths, time schedules, overlap scores) is
\* the only one get_trips can return for the query and the dataset, whatever
\* the order in which tied rows are processed.
C11_Deterministic ==
    pc = "done" =>
       \A t \in PossibleTrips(planning, OnNullOf(trips)) : OutputOf(t) = Output

RECURSIVE SumSeq(_)
SumSeq(l) == IF l = <<>> THEN 0 ELSE Head(l) + SumSeq(Tail(l))

\* C12: for every path of every layer, travel_time is the sum of the travel
\* times of its legs, and number_of_monuments is the sum of the monuments of
\* its stations after the first.
C12_CumulativeSums ==
    \A r \in planning :
        LET legs == LegsOf(r.path, r.time_schedule)
        IN /\ r.travel_time
                = SumSeq([i \in DOMAIN legs |->
                             date_diff(legs[i].departure_time_tb, legs[i].arrival_time_tb)])
           /\ r.number_of_monuments
                = SumSeq([i \in 1..(Len(r.path) - 1) |->
                             train_stations[r.path[i + 1]].number_of_monuments])

\* a path of three legs was built, over stations with different monuments
C12_Witness ==
    /\ pc = "done"
    /\ \E r \in planning :
          /\ Len(r.path) >= 4
          /\ r.travel_time > r.arrival_time_tb - r.departure_time_tb
          /\ r.number_of_monuments > train_stations[r.to_station_code].number_of_monuments

\* A query from A back to A, and the legs A->B 08:00-08:30, B->C 08:30-09:00,
\* C->A 09:00-09:30
RoundTripQuery ==
    [input_day_of_week       |-> 1,
     input_station_code      |-> "A",
     input_hour_departure    |-> 8,
     input_minute_departure  |-> 0,
     input_to_station_code   |-> "A",
     input_hour_arrival      |-> 9,
     input_layover_time      |-> 0,
     input_to_municipality_sk |-> "M1"]

RoundTripLegs ==
    download_data({exploded_raw_data(1, "s11", "A", 480, "B", 510),
                   exploded_raw_data(1, "s13", "B", 510, "C", 540),
                   exploded_raw_data(1, "s17", "C", 540, "A", 570)})

\* C16: the query from A to A over the legs A->B, B->C, C->A returns the
\* round trip [A,B,C,A]: the last leg is accepted although the municipality
\* of A is on the path already.
C16_RoundTrip ==
    (pc = "done" /\ input = RoundTripQuery /\ services = RoundTripLegs)
       => \E k \in DOMAIN trips : trips[k].path = <<"A", "B", "C", "A">>

\* a query whose origin is its destination has returned a trip that starts
\* and ends there
C16_Witness ==
    /\ pc = "done"
    /\ input.input_station_code = input.input_to_station_code
    /\ \E k \in DOMAIN trips :
          /\ trips[k].path[1] = input.input_station_code
          /\ trips[k].path[Len(trips[k].path)] = input.input_station_code

\* The rows of planning one iteration of the recursive term returned
\* together with r
LayerOf(r) == {o \in planning : Len(o.path) = Len(r.path)}

\* C17 as stated: a path produced by an extension is terminated exactly when
\* its own last leg reaches the destination in the requested hour.
C17_TerminatedByOwnExtension ==
    \A r \in planning :
        Len(r.path) >= 3 =>
           (r.end_reached = 1 <=> ReachesDestination(r.to_station_code, r.arrival_time_tb))

\* C17 amended: a path produced by an extension is terminated exactly when
\* some path of its layer reaches the destination in the requested hour.
C17_TerminatedByLayer ==
    \A r \in planning :
        Len(r.path) >= 3 =>
           (r.end_reached = 1
              <=> \E o \in LayerOf(r) : ReachesDestination(o.to_station_code, o.arrival_time_tb))

\* a layer holds a path that reaches the destination and one that does not
C17_Witness ==
    \E r \in planning : \E o \in LayerOf(r) :
       /\ ReachesDestination(o.to_station_code, o.arrival_time_tb)
       /\ ~ReachesDestination(r.to_station_code, r.arrival_time_tb)
       /\ r.end_reached = 1

\* C18: once a path of a layer reaches the destination in the requested
\* hour, every path of that layer is terminated and planning holds no path
\* of a later layer.
C18_FrontierWideTermination ==
    \A r \in planning :
        ReachesDestination(r.to_station_code, r.arrival_time_tb) =>
           \A o \in planning :
              /\ Len(o.path) = Len(r.path) => o.end_reached = 1
              /\ Len(o.path) <= Len(r.path)

\* the search has ended although a path that has not reached the destination
\* has a leg that follows on it to a new municipality
C18_Witness ==
    /\ pc = "done"
    /\ \E r \in planning : \E o \in LayerOf(r) : \E ts \in train_schedule :
          /\ ReachesDestination(o.to_station_code, o.arrival_time_tb)
          /\ ~ReachesDestination(r.to_station_code, r.arrival_time_tb)
          /\ r.to_station_code = ts.from_station_code
          /\ (r.arrival_time_tb + 60 * input.input_layover_time) \div 15
                = ts.departure_time_tb \div 15
          /\ \/ /\ \A i \in DOMAIN r.municipalities : r.municipalities[i] # ts.to_municipality_sk
                /\ ts.to_municipality_sk # input.input_to_municipality_sk
             \/ ReachesDestination(ts.to_station_code, ts.arrival_time_tb)

\* The municipalities of a row, as a set
MunicipalitySet(o) == {o.municipalities[i] : i \in DOMAIN o.municipalities}

C20_TiesShareFootprint ==
    pc = "done" =>
       \A k \in DOMAIN trips :
          \E i \in DOMAIN optimal_paths :
             /\ optimal_paths[i].path = trips[k].path
             /\ (IF trips[k].no_overlaps = NULL THEN 0 ELSE trips[k].no_overlaps)
                  = Cardinality(MunicipalitySet(optimal_paths[i])
                                   \cap UNION {MunicipalitySet(optimal_paths[j]) :
                                                  j \in {h \in DOMAIN optimal_paths :
                                                            optimal_paths[h].m_p > optimal_paths[i].m_p}})

\* C21: all the trips one call returns have the same number of stations.
C21_SameNumberOfStations ==
    \A k, l \in DOMAIN trips : Len(trips[k].path) = Len(trips[l].path)

\* two trips are returned while a path of their layer that has not reached
\* the destination has a leg that would take it there in the requested hour
C21_Witness ==
    /\ pc = "done"
    /\ Len(trips) >= 2
    /\ \E r \in planning : \E ts \in train_schedule :
          /\ Len(r.path) = Len(trips[1].path)
          /\ ~ReachesDestination(r.to_station_code, r.arrival_time_tb)
          /\ r.to_station_code = ts.from_station_code
          /\ (r.arrival_time_tb + 60 * input.input_layover_time) \div 15
                = ts.departure_time_tb \div 15
          /\ ReachesDestination(ts.to_station_code, ts.arrival_time_tb)

\* The municipalities of the legs of the partition
DatasetMunicipalities ==
    {r.from_municipality_sk : r \in services} \cup {r.to_municipality_sk : r \in services}

\* C22: the evaluation ends (an iteration returns no row and the result is
\* delivered), and no path has more stations than the partition has
\* municipalities, plus one.
C22_Terminates ==
    /\ <>(pc = "done")
    /\ [](\A r \in planning : Len(r.path) <= Cardinality(DatasetMunicipalities) + 1)

\* the evaluation has ended with a path that has one station more than the
\* partition has municipalities
C22_Witness ==
    /\ pc = "done"
    /\ \E r \in planning : Len(r.path) = Cardinality(DatasetMunicipalities) + 1

(***************************************************************************)
(* Properties of executeTripQuery                                          *)
(***************************************************************************)
\* C5: once the timer of a call's trip query has fired, the call has failed
\* with the timeout message at that expiry: it is not running any more, it
\* has returned no result, and it sent the engine no query after an expiry.
C5_TimeoutFailsAtFirstExpiry ==
    \A c \in Calls :
       call[c].timeouts >= 1 =>
          /\ call[c].pc = "idle"
          /\ call[c].outcome = [kind |-> "threw", value |-> TimeoutMessage]
          /\ \A q \in issued : q.id = call[c].id => q.timeouts = 0

\* The declared ranges of the parameters of a query
ValidInput(params) ==
    /\ ValidDayOfWeek(params.dayOfWeek)
    /\ params.hourDeparture \in 0..23

\* C13: a call whose input lies outside its declared range sends the engine
\* no get_trips query and returns no result.
C13_InvalidInputFailsFast ==
    \A c \in Calls :
       (call[c].id > 0 /\ ~ValidInput(call[c].params)) =>
          /\ \A q \in issued : q.id # call[c].id
          /\ call[c].outcome.kind # "returned"

PartitionUnavailable ==
    [kind |-> "threw", value |-> "Failed to fetch ./data/train_services.parquet"]

\* C14: only a partition that was fetched is registered; a call whose fetch
\* of the partition fails throws the fetch error, has sent no get_trips
\* query, and leaves servicesRegistered and the registered files as they
\* were; the fetch is skipped only when the key of the day is registered.
C14_PartitionFetchFailure ==
    /\ [](\A c \in Calls :
             call[c].pc \in {"register_services", "stations_fetch"} => call[c].resp_ok)
    /\ [][\A c \in Calls :
            /\ (call[c].pc = "services_fetch"
                  /\ call'[c].pc \notin {"services_fetch", "register_services"})
               => /\ call'[c].pc = "idle"
                  /\ call'[c].outcome = PartitionUnavailable
                  /\ servicesRegistered' = servicesRegistered
                  /\ dbs' = dbs
                  /\ \A q \in issued' : q.id # call[c].id
            /\ (call[c].pc = "ensureServicesFileRegistered" /\ call'[c].pc = "prepare")
               => servicesRegistered = RegistrationKey(call[c].params.dayOfWeek)]_vars

\* the fetch of a day's partition has failed while another day is registered
C14_Witness ==
    \E c \in Calls :
       /\ call[c].pc = "idle"
       /\ call[c].outcome = PartitionUnavailable
       /\ servicesRegistered # <<>>
       /\ servicesRegistered # RegistrationKey(call[c].params.dayOfWeek)

\* C15: the response of a failed fetch of train_stations.csv is not
\* registered: no call is registering one, no database holds one as its
\* stations file, so no key is set and no query runs over one.
C15_StationsFetchFailureAborts ==
    /\ \A c \in Calls : call[c].pc = "register_stations" => call[c].resp_ok
    /\ \A i \in DOMAIN dbs : \A f \in dbs[i].files : f.path = StationsFilePath => f.ok
    /\ \A q \in issued : \A f \in dbs[conns[q.conn].db].files : f.ok

\* C23: at most one engine is instantiated and at most one connection
\* opened, and when duckdbReady is true duckdbConn is a connection on
\* duckdbDb, which is instantiated.
C23_EngineLoadedOnce ==
    /\ Cardinality({i \in DOMAIN dbs : dbs[i].instantiated}) <= 1
    /\ Len(conns) <= 1
    /\ duckdbReady =>
          /\ duckdbConn \in DOMAIN conns
          /\ conns[duckdbConn].db = duckdbDb
          /\ dbs[duckdbDb].instantiated

\* The engine a query was sent to
EngineOf(q) == dbs[conns[q.conn].db]

\* C24: the engine every get_trips query was sent to has the macro and the
\* fetched partition of the query's day registered; servicesRegistered, when
\* set, names a day whose partition is registered with an engine.
C24_QueryAfterRegistration ==
    /\ \A q \in issued :
          /\ EngineOf(q).macro
          /\ [path |-> ServicesFilePath(q.params.dayOfWeek), ok |-> TRUE] \in EngineOf(q).files
    /\ servicesRegistered # <<>> =>
          \E d \in {p.dayOfWeek : p \in Params} :
             /\ servicesRegistered = RegistrationKey(d)
             /\ \E i \in DOMAIN dbs :
                   [path |-> ServicesFilePath(d), ok |-> TRUE] \in dbs[i].files

====
